---- MODULE Spec2Model ----
(***************************************************************************)
(* Model of the ingestion path and the metrics query of the health        *)
(* service:                                                                *)
(*   POST /api/apple-health/auto-export   (src/src/health-api.js)          *)
(*   HealthDatabase.saveAutoExportData / saveHealthMetric / logSync /      *)
(*   runQuery and the schema of createTables (src/src/health-database.js)  *)
(*   GET /api/apple-health/metrics/:type and getAppleHealthMetrics         *)
(*   (src/src/health-api.js)                                               *)
(*                                                                         *)
(* Spec is the ingestion path on an empty store, with concurrent requests. *)
(* QuerySpec is ingestion and the metrics query together, on a store that  *)
(* already holds rows.                                                     *)
(*                                                                         *)
(* Every awaited runQuery is one atomic step of the store (SQLite runs     *)
(* one statement at a time); the synchronous JavaScript between two awaits *)
(* belongs to the step that resumes it.  Several requests may be in flight *)
(* at once and their steps interleave.  A statement may be rejected by the *)
(* store (runQuery's reject branch).                                       *)
(*                                                                         *)
(* Numbers are fixed-point, in thousandths (200 stands for 0.2).           *)
(* A timestamp string is the tuple <<year, month, day, time>>; the string  *)
(* prefixes SUBSTR(d,1,4), SUBSTR(d,1,7), SUBSTR(d,1,10) are the tuple     *)
(* prefixes of length 1, 2, 3.  Wall-clock columns (created_at,            *)
(* import_timestamp, sync_time) are left out.                              *)
(***************************************************************************)
EXTENDS Integers, Sequences, FiniteSets, TLC

VARIABLES
    health_metrics,            \* table health_metrics, in id order
    apple_health_auto_export,  \* table apple_health_auto_export, in id order
    health_sync_log,           \* table health_sync_log, in id order
    calls,                     \* one record per HTTP request (its position and locals)
    faults,                    \* number of statements the store has rejected
    response                   \* the last answer of GET /api/apple-health/metrics/:type

vars == <<health_metrics, apple_health_auto_export, health_sync_log, calls, faults,
          response>>

-----------------------------------------------------------------------------
(* Bounds *)

MaxCalls == 2     \* number of ingest requests
MaxFaults == 2    \* number of statements the store may reject
MaxItems == 2     \* data points and workouts per batch

Calls == 1..MaxCalls

-----------------------------------------------------------------------------
(* Inputs *)

T1 == <<2025, 10, 11, 814>>
NoDate == <<>>          \* dataPoint.date is undefined: bound as NULL
BadDate == <<0>>        \* a string that is no timestamp

\* dataPoint.source: "" stands for an absent (falsy) source.  Avg and
\* totalSleep: 0 stands for an absent field as well (both are read with || 0).
DataPoints ==
    { [date |-> T1, qty |-> 200, Avg |-> 0, totalSleep |-> 0, source |-> ""],
      [date |-> T1, qty |-> 12100, Avg |-> 0, totalSleep |-> 0, source |-> "Apple Watch"],
      [date |-> NoDate, qty |-> 200, Avg |-> 0, totalSleep |-> 0, source |-> ""],
      [date |-> BadDate, qty |-> 200, Avg |-> 0, totalSleep |-> 0, source |-> ""] }

DataSeqs == UNION { [1..n -> DataPoints] : n \in 1..MaxItems }

MetricEntries ==
    { [name |-> "step_count", units |-> "count", data |-> d] : d \in DataSeqs }

Workouts ==
    { [name |-> "Running", start |-> T1, duration |-> 1800000, source |-> ""] }

RECURSIVE DataPointCount(_)
DataPointCount(metrics) ==
    IF metrics = <<>> THEN 0
    ELSE Len(Head(metrics).data) + DataPointCount(Tail(metrics))

\* req.body: shape "none" is a missing body, "nodata" a body without data,
\* "ok" a body with data (absent metrics / workouts behave as empty arrays).
Bodies ==
    { [shape |-> "none", metrics |-> <<>>, workouts |-> <<>>],
      [shape |-> "nodata", metrics |-> <<>>, workouts |-> <<>>] }
    \cup { b \in { [shape |-> "ok", metrics |-> m, workouts |-> w] :
                      m \in {<<>>} \cup { <<e>> : e \in MetricEntries },
                      w \in {<<>>} \cup { <<x>> : x \in Workouts } } :
             DataPointCount(b.metrics) + Len(b.workouts) <= MaxItems }

-----------------------------------------------------------------------------
(* Schema *)

\* (mutation of UniqueConstraints) the table is declared with
\* UNIQUE(metric_type, metric_source, metric_date)
UniqueTypeSourceDate == {{"metric_type", "metric_source", "metric_date"}}

\* UNIQUE constraints / unique indexes on health_metrics, each a set of columns.
\* createTables declares none (the primary key is the AUTOINCREMENT id).
UniqueConstraints == {}

\* the only column the model can hold NULL in is metric_date; SQLite treats
\* NULLs as distinct in a unique index
IsNull(row, col) == col = "metric_date" /\ row.metric_date = NoDate

Conflicts(table, row) ==
    \E cols \in UniqueConstraints :
        \E i \in DOMAIN table :
            \A col \in cols : table[i][col] = row[col] /\ ~IsNull(row, col)

\* (mutation of InsertOrIgnore) INSERT OR REPLACE under a unique index on
\* (metric_type, metric_date): the rows in conflict are deleted
InsertOrReplace(table, row) ==
    SelectSeq(table, LAMBDA r : ~(/\ r.metric_type = row.metric_type
                                  /\ r.metric_date = row.metric_date))
    \o <<row>>

\* INSERT OR IGNORE: a row that conflicts with a unique constraint is dropped
InsertOrIgnore(table, row) ==
    IF Conflicts(table, row) THEN table ELSE Append(table, row)

\* this.changes of the statement
Changes(table, row) == IF Conflicts(table, row) THEN 0 ELSE 1

\* id of the row the statement inserted, 0 when it inserted none
LastID(table, row) == IF Changes(table, row) = 1 THEN Len(table) + 1 ELSE 0

-----------------------------------------------------------------------------
(* saveHealthMetric *)

KJ_PER_KCAL == 4184    \* 4.184 in thousandths

EnergyTypes == {"active_energy", "basal_energy_burned"}

\* (mutation of ConvertedValue) the value is copied for every kind and unit
NotConverted(type, unit, value) == value

\* convertedValue of saveHealthMetric (value / 4.184, in fixed point)
ConvertedValue(type, unit, value) ==
    IF type \in EnergyTypes /\ unit = "kJ"
    THEN (value * 1000) \div KJ_PER_KCAL
    ELSE value

\* (mutation of MetricRow) the conversion overwrites the value and the unit
MetricRowConvertedInPlace(a) ==
    [ metric_type |-> a.type,
      metric_source |-> a.source,
      metric_date |-> a.date,
      metric_value |-> ConvertedValue(a.type, a.unit, a.value),
      metric_unit |-> IF a.type \in EnergyTypes /\ a.unit = "kJ" THEN "kcal" ELSE a.unit,
      metric_value_converted |-> ConvertedValue(a.type, a.unit, a.value),
      additional_data |-> a.additional ]

\* the values array bound to the INSERT of saveHealthMetric
MetricRow(a) ==
    [ metric_type |-> a.type,
      metric_source |-> a.source,
      metric_date |-> a.date,
      metric_value |-> a.value,
      metric_unit |-> a.unit,
      metric_value_converted |-> ConvertedValue(a.type, a.unit, a.value),
      additional_data |-> a.additional ]

-----------------------------------------------------------------------------
(* saveAutoExportData: the arguments of its saveHealthMetric calls *)

\* dataPoint.source || 'iPhone'
SourceOrDefault(src) == IF src = "" THEN "iPhone" ELSE src

\* the three branches of the data-point loop; of the additional-data object
\* only its source member is kept
MetricArgs(metric, dataPoint) ==
    [ type |-> metric.name,
      source |-> "health_auto_export",
      date |-> dataPoint.date,
      value |-> IF metric.name = "sleep_analysis" THEN dataPoint.totalSleep
                ELSE IF metric.name = "heart_rate" THEN dataPoint.Avg
                ELSE dataPoint.qty,
      unit |-> metric.units,
      additional |-> SourceOrDefault(dataPoint.source) ]

WorkoutArgs(workout) ==
    [ type |-> "workout_" \o workout.name,
      source |-> "health_auto_export",
      date |-> workout.start,
      value |-> workout.duration,
      unit |-> "seconds",
      additional |-> SourceOrDefault(workout.source) ]

\* the data points in the order the nested loops visit them
RECURSIVE MetricItems(_)
MetricItems(metrics) ==
    IF metrics = <<>> THEN <<>>
    ELSE [j \in 1..Len(Head(metrics).data) |->
              MetricArgs(Head(metrics), Head(metrics).data[j])]
         \o MetricItems(Tail(metrics))

WorkoutItems(workouts) == [j \in 1..Len(workouts) |-> WorkoutArgs(workouts[j])]

-----------------------------------------------------------------------------
(* The request and its locals *)

\* pc: "idle" (not yet received), then the statement the call is awaiting:
\*   "import" (the import record), "metrics" (data point i), "workouts"
\*   (workout i), "logsync", "errimport" (the error record of the catch block),
\*   "errlogsync"; "done" once the response is sent (status 200, 400 or 500).
\* History fields, written but never read by the steps: rowIds (for each
\* save completed, in order, the id of the health_metrics row it inserted,
\* 0 when the insert was ignored), importIds (ids of its rows in
\* apple_health_auto_export), failedAt (position of the save the store
\* rejected: j for data point j, Len(metric items) + j for workout j),
\* allSeen (every tuple of the batch was in the store on receipt),
\* concurrentWith (the calls in flight on receipt).
NoBody == [shape |-> "none", metrics |-> <<>>, workouts |-> <<>>]

IdleCall ==
    [ pc |-> "idle", body |-> NoBody, i |-> 0,
      metricsStored |-> 0, workoutsStored |-> 0, importId |-> 0, status |-> 0,
      rowIds |-> <<>>, importIds |-> <<>>, failedAt |-> 0,
      allSeen |-> FALSE, concurrentWith |-> {} ]

Key(row) == <<row.metric_type, row.metric_source, row.metric_date>>

AllItems(body) == MetricItems(body.metrics) \o WorkoutItems(body.workouts)

InFlight == { d \in Calls : calls[d].pc \notin {"idle", "done"} }

\* (mutation of ValidEnvelope) the route tests only !req.body
AnyBodyAccepted(body) == body.shape # "none"

\* the validation of the route: !req.body || !req.body.data
ValidEnvelope(body) == body.shape = "ok"

\* where the loops of saveAutoExportData go after the statement at pc
AfterImport(body) ==
    IF MetricItems(body.metrics) # <<>> THEN "metrics"
    ELSE IF body.workouts # <<>> THEN "workouts"
    ELSE "logsync"

AfterMetric(body, i) ==
    IF i < Len(MetricItems(body.metrics)) THEN "metrics"
    ELSE IF body.workouts # <<>> THEN "workouts"
    ELSE "logsync"

AfterWorkout(body, i) ==
    IF i < Len(body.workouts) THEN "workouts" ELSE "logsync"

\* (mutation of SaveRejected) the rejected save is swallowed and the loop goes on
SaveRejectedSwallowed(call, pos) ==
    LET n == Len(MetricItems(call.body.metrics))
        next == IF pos <= n THEN AfterMetric(call.body, pos)
                ELSE AfterWorkout(call.body, pos - n)
    IN [call EXCEPT !.pc = next,
                    !.i = IF next = "metrics" THEN pos + 1
                          ELSE IF pos <= n THEN 1 ELSE pos - n + 1,
                    !.failedAt = pos,
                    !.rowIds = Append(@, 0)]

\* a rejected save: saveHealthMetric logs and rethrows, the data-point loop has
\* no handler of its own, so control reaches the catch block of
\* saveAutoExportData, which awaits the insert of the error record
SaveRejected(call, pos) ==
    [call EXCEPT !.pc = "errimport", !.failedAt = pos]

\* no metrics request has been answered yet
NoResponse == [status |-> 0]

Init ==
    /\ health_metrics = <<>>
    /\ apple_health_auto_export = <<>>
    /\ health_sync_log = <<>>
    /\ calls = [c \in Calls |-> IdleCall]
    /\ faults = 0
    /\ response = NoResponse

\* runQuery rejects
Reject ==
    /\ faults < MaxFaults
    /\ faults' = faults + 1

-----------------------------------------------------------------------------
(* Steps *)

\* POST /api/apple-health/auto-export up to its first await.  A body that
\* passes the validation is handed to saveAutoExportData (isReady holds since
\* initialize), which awaits the insert of the import record; reading
\* payload.data of a missing body throws in the route, which answers 500.
Receive(c, body) ==
    /\ calls[c].pc = "idle"
    /\ IF c = 1 THEN TRUE ELSE calls[c - 1].pc # "idle"
    /\ calls' = [calls EXCEPT ![c] =
          IF ~ValidEnvelope(body)
          THEN [@ EXCEPT !.pc = "done", !.body = body, !.status = 400]
          ELSE IF body.shape = "none"
          THEN [@ EXCEPT !.pc = "done", !.body = body, !.status = 500]
          ELSE [@ EXCEPT !.pc = "import", !.body = body,
                   !.allSeen = /\ AllItems(body) # <<>>
                               /\ \A j \in DOMAIN AllItems(body) :
                                     \E k \in DOMAIN health_metrics :
                                        Key(health_metrics[k]) = Key(MetricRow(AllItems(body)[j])),
                   !.concurrentWith = InFlight]]
    /\ UNCHANGED <<health_metrics, apple_health_auto_export, health_sync_log, faults,
                   response>>

\* (mutation of metricsCount) the data points of all metric entries are counted
metricsCountOfDataPoints(payload) == DataPointCount(payload.metrics)

\* payload.data?.metrics?.length || 0
metricsCount(payload) == Len(payload.metrics)

\* payload.data?.workouts?.length || 0
workoutsCount(payload) == Len(payload.workouts)

\* the import record (status 'success') is written before any sample
ImportInsert(c) ==
    /\ calls[c].pc = "import"
    /\ \/ /\ apple_health_auto_export' = Append(apple_health_auto_export,
                [ metrics_count |-> metricsCount(calls[c].body),
                  workouts_count |-> workoutsCount(calls[c].body),
                  payload_json |-> calls[c].body,
                  status |-> "success",
                  error_message |-> "" ])
          /\ calls' = [calls EXCEPT ![c] =
                [@ EXCEPT !.pc = AfterImport(calls[c].body), !.i = 1,
                          !.importId = Len(apple_health_auto_export) + 1,
                          !.importIds = Append(@, Len(apple_health_auto_export) + 1)]]
          /\ UNCHANGED faults
       \/ /\ Reject
          /\ calls' = [calls EXCEPT ![c] = [@ EXCEPT !.pc = "errimport"]]
          /\ UNCHANGED apple_health_auto_export
    /\ UNCHANGED <<health_metrics, health_sync_log, response>>

\* one pass of the data-point loop: await saveHealthMetric, metricsStored++
SaveMetric(c) ==
    /\ calls[c].pc = "metrics"
    /\ LET call == calls[c]
           row == MetricRow(MetricItems(call.body.metrics)[call.i])
       IN \/ /\ health_metrics' = InsertOrIgnore(health_metrics, row)
             /\ calls' = [calls EXCEPT ![c] =
                   [@ EXCEPT !.pc = AfterMetric(call.body, call.i),
                             !.i = IF AfterMetric(call.body, call.i) = "metrics"
                                   THEN call.i + 1 ELSE 1,
                             !.metricsStored = @ + 1,
                             !.rowIds = Append(@, LastID(health_metrics, row))]]
             /\ UNCHANGED faults
          \/ /\ Reject
             /\ calls' = [calls EXCEPT ![c] = SaveRejected(call, call.i)]
             /\ UNCHANGED health_metrics
    /\ UNCHANGED <<apple_health_auto_export, health_sync_log, response>>

\* one pass of the workout loop: await saveHealthMetric, workoutsStored++
SaveWorkout(c) ==
    /\ calls[c].pc = "workouts"
    /\ LET call == calls[c]
           row == MetricRow(WorkoutItems(call.body.workouts)[call.i])
       IN \/ /\ health_metrics' = InsertOrIgnore(health_metrics, row)
             /\ calls' = [calls EXCEPT ![c] =
                   [@ EXCEPT !.pc = AfterWorkout(call.body, call.i),
                             !.i = call.i + 1,
                             !.workoutsStored = @ + 1,
                             !.rowIds = Append(@, LastID(health_metrics, row))]]
             /\ UNCHANGED faults
          \/ /\ Reject
             /\ calls' = [calls EXCEPT ![c] =
                   SaveRejected(call, Len(MetricItems(call.body.metrics)) + call.i)]
             /\ UNCHANGED health_metrics
    /\ UNCHANGED <<apple_health_auto_export, health_sync_log, response>>

\* logSync('health_auto_export', 'success', ...), then return: logSync swallows
\* a rejected insert
LogSync(c) ==
    /\ calls[c].pc = "logsync"
    /\ \/ /\ health_sync_log' = Append(health_sync_log,
                [ service |-> "health_auto_export", status |-> "success",
                  records_updated |-> calls[c].metricsStored + calls[c].workoutsStored ])
          /\ UNCHANGED faults
       \/ /\ Reject
          /\ UNCHANGED health_sync_log
    /\ calls' = [calls EXCEPT ![c] = [@ EXCEPT !.pc = "done", !.status = 200]]
    /\ UNCHANGED <<health_metrics, apple_health_auto_export, response>>

\* the catch block: "try to log the error import"; a rejected insert is swallowed
ErrImport(c) ==
    /\ calls[c].pc = "errimport"
    /\ \/ /\ apple_health_auto_export' = Append(apple_health_auto_export,
                [ metrics_count |-> 0,
                  workouts_count |-> 0,
                  payload_json |-> calls[c].body,
                  status |-> "error",
                  error_message |-> "rejected" ])
          /\ calls' = [calls EXCEPT ![c] =
                [@ EXCEPT !.pc = "errlogsync",
                          !.importIds = Append(@, Len(apple_health_auto_export) + 1)]]
          /\ UNCHANGED faults
       \/ /\ Reject
          /\ calls' = [calls EXCEPT ![c] = [@ EXCEPT !.pc = "errlogsync"]]
          /\ UNCHANGED apple_health_auto_export
    /\ UNCHANGED <<health_metrics, health_sync_log, response>>

\* logSync('health_auto_export', 'error', 0, ...), then throw: the route
\* answers 500
ErrLogSync(c) ==
    /\ calls[c].pc = "errlogsync"
    /\ \/ /\ health_sync_log' = Append(health_sync_log,
                [ service |-> "health_auto_export", status |-> "error",
                  records_updated |-> 0 ])
          /\ UNCHANGED faults
       \/ /\ Reject
          /\ UNCHANGED health_sync_log
    /\ calls' = [calls EXCEPT ![c] = [@ EXCEPT !.pc = "done", !.status = 500]]
    /\ UNCHANGED <<health_metrics, apple_health_auto_export, response>>

Next ==
    \/ \E c \in Calls, body \in Bodies : Receive(c, body)
    \/ \E c \in Calls : ImportInsert(c)
    \/ \E c \in Calls : SaveMetric(c)
    \/ \E c \in Calls : SaveWorkout(c)
    \/ \E c \in Calls : LogSync(c)
    \/ \E c \in Calls : ErrImport(c)
    \/ \E c \in Calls : ErrLogSync(c)

Spec == Init /\ [][Next]_vars

-----------------------------------------------------------------------------
(* getAppleHealthMetrics: the daily aggregation of a cumulative kind *)

\* string comparison of two timestamps (a proper prefix sorts first)
RECURSIVE LexLeq(_, _)
LexLeq(a, b) ==
    IF a = <<>> THEN TRUE
    ELSE IF b = <<>> THEN FALSE
    ELSE IF Head(a) < Head(b) THEN TRUE
    ELSE IF Head(a) > Head(b) THEN FALSE
    ELSE LexLeq(Tail(a), Tail(b))

\* SUBSTR(metric_date, 1, 10)
Substr10(d) == SubSeq(d, 1, IF Len(d) < 3 THEN Len(d) ELSE 3)

\* additional_data LIKE '%Watch%'
LikeWatch(additional) == additional = "Apple Watch"

\* (mutation of DeviceFilter) no kind is filtered
NoDeviceFilter(type, row) == TRUE

\* deviceFilter: only step_count is filtered
DeviceFilter(type, row) ==
    type = "step_count" =>
        \/ row.metric_source = "health_auto_export"
        \/ row.metric_source = "health_export_complete" /\ LikeWatch(row.additional_data)

\* WHERE metric_type = ? AND metric_date >= ? AND metric_date <= ? ${deviceFilter}
\* (a NULL metric_date satisfies no comparison)
Matching(type, startDateStr, endDateStr) ==
    { k \in DOMAIN health_metrics :
        /\ health_metrics[k].metric_type = type
        /\ health_metrics[k].metric_date # NoDate
        /\ LexLeq(startDateStr, health_metrics[k].metric_date)
        /\ LexLeq(health_metrics[k].metric_date, endDateStr)
        /\ DeviceFilter(type, health_metrics[k]) }

RECURSIVE SumValue(_)
SumValue(ids) ==
    IF ids = {} THEN 0
    ELSE LET k == CHOOSE x \in ids : TRUE
         IN health_metrics[k].metric_value + SumValue(ids \ {k})

\* the rows of one group of GROUP BY SUBSTR(metric_date, 1, 10), metric_unit
DailyGroup(type, startDateStr, endDateStr, period, unit) ==
    { k \in Matching(type, startDateStr, endDateStr) :
        /\ Substr10(health_metrics[k].metric_date) = period
        /\ health_metrics[k].metric_unit = unit }

\* SUM(metric_value) as total_value of that group
DailyTotalValue(type, startDateStr, endDateStr, period, unit) ==
    SumValue(DailyGroup(type, startDateStr, endDateStr, period, unit))

-----------------------------------------------------------------------------
(* getAppleHealthMetrics *)

\* metricMap: API metric names to internal names
metricMap ==
    [ t \in { "steps", "heart-rate", "active-energy", "walking-distance",
              "body-weight", "exercise-minutes", "flights-climbed",
              "resting-heart-rate", "hrv", "sleep" } |->
        CASE t = "steps" -> "step_count"
          [] t = "heart-rate" -> "heart_rate"
          [] t = "active-energy" -> "active_energy"
          [] t = "walking-distance" -> "walking_running_distance"
          [] t = "body-weight" -> "weight_body_mass"
          [] t = "exercise-minutes" -> "apple_exercise_time"
          [] t = "flights-climbed" -> "flights_climbed"
          [] t = "resting-heart-rate" -> "resting_heart_rate"
          [] t = "hrv" -> "heart_rate_variability_sdnn"
          [] t = "sleep" -> "sleep_analysis" ]

\* metricMap is an object literal, so metricMap[type] also finds the
\* properties every object inherits (two of them here); their values are
\* functions, given as the text they convert to
ObjectPrototype ==
    [ t \in {"constructor", "toString"} |->
        CASE t = "constructor" -> "function Object() { [native code] }"
          [] t = "toString" -> "function toString() { [native code] }" ]

\* const internalType = metricMap[type]; "" is undefined
internalTypeOf(type) ==
    IF type \in DOMAIN metricMap THEN metricMap[type]
    ELSE IF type \in DOMAIN ObjectPrototype THEN ObjectPrototype[type]
    ELSE ""

cumulativeMetrics ==
    { "step_count", "active_energy", "basal_energy_burned",
      "walking_running_distance", "apple_exercise_time", "flights_climbed" }

\* (mutation of aggregationLevel) every kind defaults to 'daily'
AlwaysDailyDefault(aggregate, internalType) ==
    IF aggregate # "" THEN aggregate ELSE "daily"

\* (mutation of aggregationLevel) an unknown token is treated as absent
UnknownTokenAsDefault(aggregate, internalType) ==
    IF aggregate \in {"none", "daily", "weekly", "monthly", "yearly", "total"}
    THEN aggregate
    ELSE IF internalType \in cumulativeMetrics THEN "daily" ELSE "none"

\* aggregate || (isCumulative ? 'daily' : 'none'); "" is an absent parameter
aggregationLevel(aggregate, internalType) ==
    IF aggregate # "" THEN aggregate
    ELSE IF internalType \in cumulativeMetrics THEN "daily" ELSE "none"

\* internalType === 'active_energy' || internalType === 'basal_energy_burned'
IsEnergyType(internalType) ==
    internalType \in {"active_energy", "basal_energy_burned"}

\* Math.round(num / den * 100) / 100 in thousandths, for num >= 0, den > 0
\* (the binary rounding error of the floating-point product is left out)
Round2Div(num, den) == ((2 * num + 10 * den) \div (20 * den)) * 10

Round2(v) == Round2Div(v, 1)

\* a number that may be NaN (serialised as null): <<>> is NaN, <<v>> is v
NaN == <<>>

\* Math.round(x * 100) / 100 of an SQL column x that the query did not select
\* (undefined) or did select
Round2OrNaN(x) == IF x = NaN THEN NaN ELSE <<Round2(x[1])>>

\* STRFTIME('%Y-W%W', SUBSTR(metric_date, 1, 10)): the week of the year, 00-53,
\* where week 01 starts on the first Monday of the year.  All dates of the
\* model are valid calendar dates (for others STRFTIME yields NULL).
IsLeapYear(y) == (y % 4 = 0 /\ y % 100 # 0) \/ y % 400 = 0

DaysInMonth(y, m) ==
    IF m = 2 THEN (IF IsLeapYear(y) THEN 29 ELSE 28)
    ELSE IF m \in {4, 6, 9, 11} THEN 30 ELSE 31

RECURSIVE DaysBeforeMonth(_, _)
DaysBeforeMonth(y, m) ==
    IF m = 1 THEN 0 ELSE DaysBeforeMonth(y, m - 1) + DaysInMonth(y, m - 1)

\* day of the year, 0 for 1 January
DayOfYear(date) == DaysBeforeMonth(date[1], date[2]) + date[3] - 1

\* day of the week of 1 January, 0 = Sunday
Jan1Weekday(y) ==
    (1 + 5 * ((y - 1) % 4) + 4 * ((y - 1) % 100) + 6 * ((y - 1) % 400)) % 7

\* day of the week, 0 = Monday
WeekdayMon0(date) == (Jan1Weekday(date[1]) + DayOfYear(date) + 6) % 7

StrftimeYearWeek(date) ==
    <<date[1], (DayOfYear(date) + 7 - WeekdayMon0(date)) \div 7>>

\* the "period" expression of each SQL statement ('total' is the empty tuple)
Period(level, metric_date) ==
    CASE level = "daily" -> Substr10(metric_date)
      [] level = "weekly" -> StrftimeYearWeek(Substr10(metric_date))
      [] level = "monthly" -> SubSeq(metric_date, 1, 2)
      [] level = "yearly" -> SubSeq(metric_date, 1, 1)
      [] level = "total" -> <<>>

\* the groups of GROUP BY <period>, metric_unit over the matching rows, each
\* the set of the ids of its rows
Groups(level, ids) ==
    { { k2 \in ids :
          /\ Period(level, health_metrics[k2].metric_date)
                = Period(level, health_metrics[k].metric_date)
          /\ health_metrics[k2].metric_unit = health_metrics[k].metric_unit } :
        k \in ids }

RECURSIVE SumConverted(_)
SumConverted(ids) ==
    IF ids = {} THEN 0
    ELSE LET k == CHOOSE x \in ids : TRUE
         IN health_metrics[k].metric_value_converted + SumConverted(ids \ {k})

MinValue(ids) ==
    CHOOSE v \in { health_metrics[k].metric_value : k \in ids } :
        \A k \in ids : v <= health_metrics[k].metric_value

MaxValue(ids) ==
    CHOOSE v \in { health_metrics[k].metric_value : k \in ids } :
        \A k \in ids : v >= health_metrics[k].metric_value

MinDate(ids) ==
    CHOOSE d \in { health_metrics[k].metric_date : k \in ids } :
        \A k \in ids : LexLeq(d, health_metrics[k].metric_date)

MaxDate(ids) ==
    CHOOSE d \in { health_metrics[k].metric_date : k \in ids } :
        \A k \in ids : LexLeq(health_metrics[k].metric_date, d)

\* the row the aggregating SELECT yields for one group.  AVG(metric_value) is
\* kept as the pair of its numerator and denominator; min_value and max_value
\* are selected by the daily statement only.
GroupRow(level, g) ==
    LET k == CHOOSE x \in g : TRUE
    IN [ period |-> Period(level, health_metrics[k].metric_date),
         total_value |-> SumValue(g),
         total_value_converted |-> SumConverted(g),
         avg_value |-> <<SumValue(g), Cardinality(g)>>,
         min_value |-> IF level = "daily" THEN <<MinValue(g)>> ELSE NaN,
         max_value |-> IF level = "daily" THEN <<MaxValue(g)>> ELSE NaN,
         sample_count |-> Cardinality(g),
         first_sample |-> MinDate(g),
         last_sample |-> MaxDate(g),
         metric_unit |-> health_metrics[k].metric_unit ]

\* (mutation of AggregatedResult) the value of a group is its sum for every kind
AggregatedResultSum(internalType, row) ==
    LET isCumulative == internalType \in cumulativeMetrics
        useConverted == IsEnergyType(internalType) /\ row.total_value_converted # 0
    IN [ period |-> row.period,
         value |-> IF useConverted THEN Round2(row.total_value_converted)
                   ELSE Round2(row.total_value),
         unit |-> IF IsEnergyType(internalType) THEN "kcal" ELSE row.metric_unit,
         samples |-> row.sample_count,
         first_sample |-> row.first_sample,
         last_sample |-> row.last_sample,
         hasStats |-> ~isCumulative,
         avg |-> IF isCumulative THEN NaN
                 ELSE <<Round2Div(row.avg_value[1], row.avg_value[2])>>,
         min |-> IF isCumulative THEN NaN ELSE Round2OrNaN(row.min_value),
         max |-> IF isCumulative THEN NaN ELSE Round2OrNaN(row.max_value) ]

\* (mutation of AggregatedResult) every kind is reported from the raw values
\* with the stored unit
AggregatedResultRaw(internalType, row) ==
    LET isCumulative == internalType \in cumulativeMetrics
    IN [ period |-> row.period,
         value |-> IF isCumulative THEN Round2(row.total_value)
                   ELSE Round2Div(row.avg_value[1], row.avg_value[2]),
         unit |-> row.metric_unit,
         samples |-> row.sample_count,
         first_sample |-> row.first_sample,
         last_sample |-> row.last_sample,
         hasStats |-> ~isCumulative,
         avg |-> IF isCumulative THEN NaN
                 ELSE <<Round2Div(row.avg_value[1], row.avg_value[2])>>,
         min |-> IF isCumulative THEN NaN ELSE Round2OrNaN(row.min_value),
         max |-> IF isCumulative THEN NaN ELSE Round2OrNaN(row.max_value) ]

\* the aggregated format: one element of results
AggregatedResult(internalType, row) ==
    LET isCumulative == internalType \in cumulativeMetrics
        useConverted == IsEnergyType(internalType) /\ row.total_value_converted # 0
        value == IF useConverted THEN Round2(row.total_value_converted)
                 ELSE IF isCumulative THEN Round2(row.total_value)
                 ELSE Round2Div(row.avg_value[1], row.avg_value[2])
    IN [ period |-> row.period,
         value |-> value,
         unit |-> IF IsEnergyType(internalType) THEN "kcal" ELSE row.metric_unit,
         samples |-> row.sample_count,
         first_sample |-> row.first_sample,
         last_sample |-> row.last_sample,
         hasStats |-> ~isCumulative,
         avg |-> IF isCumulative THEN NaN
                 ELSE <<Round2Div(row.avg_value[1], row.avg_value[2])>>,
         min |-> IF isCumulative THEN NaN ELSE Round2OrNaN(row.min_value),
         max |-> IF isCumulative THEN NaN ELSE Round2OrNaN(row.max_value) ]

\* the original format for individual samples: one element of results
RawResult(internalType, k) ==
    LET row == health_metrics[k]
    IN [ recorded_date |-> row.metric_date,
         value |-> IF IsEnergyType(internalType) /\ row.metric_value_converted # 0
                   THEN row.metric_value_converted ELSE row.metric_value,
         unit |-> IF IsEnergyType(internalType) THEN "kcal" ELSE row.metric_unit,
         device |-> row.metric_source,
         additional |-> row.additional_data ]

\* the orders in which a statement may return the rows S: ORDER BY key DESC
\* leaves rows of equal key in any order, and the 'total' statement has no
\* ORDER BY at all
Orderings(S, key, ordered) ==
    { s \in [1..Cardinality(S) -> S] :
        /\ \A i, j \in DOMAIN s : s[i] = s[j] => i = j
        /\ ordered => \A i, j \in DOMAIN s :
                         i < j => LexLeq(key[s[j]], key[s[i]]) }

\* (mutation of Limit) the statement returns every row
NoLimit(s, limit) == s

\* LIMIT ?
Limit(s, limit) == IF Len(s) <= limit THEN s ELSE SubSeq(s, 1, limit)

\* rows.map(...) for each order in which allQuery may return the rows
Results(level, internalType, ids, limit) ==
    IF level = "none"
    THEN LET date == [k \in ids |-> health_metrics[k].metric_date]
         IN { [i \in DOMAIN s |-> RawResult(internalType, s[i])] :
                s \in { Limit(o, limit) : o \in Orderings(ids, date, TRUE) } }
    ELSE LET groups == Groups(level, ids)
             row == [g \in groups |-> GroupRow(level, g)]
             period == [g \in groups |-> row[g].period]
         IN { [i \in DOMAIN s |-> AggregatedResult(internalType, row[s[i]])] :
                s \in { IF level = "total" THEN o ELSE Limit(o, limit) :
                          o \in Orderings(groups, period, level # "total") } }

RECURSIVE SumOfValues(_)
SumOfValues(results) ==
    IF results = <<>> THEN 0
    ELSE Head(results).value + SumOfValues(Tail(results))

\* (mutation of Summary) an aggregated answer without groups carries a
\* summary of zeros
SummaryOfNothing(level, results, startDateStr, endDateStr) ==
    IF level # "none"
    THEN << [ total |-> Round2(SumOfValues(results)),
              average_per_period |-> IF Len(results) = 0 THEN 0
                                     ELSE Round2Div(SumOfValues(results), Len(results)),
              periods |-> Len(results),
              date_range |-> [start |-> startDateStr, end |-> endDateStr] ] >>
    ELSE <<>>

\* (mutation of Summary) the summary totals the first group only
SummaryOfFirstGroup(level, results, startDateStr, endDateStr) ==
    IF level # "none" /\ Len(results) > 0
    THEN << [ total |-> Round2(Head(results).value),
              average_per_period |-> Round2Div(Head(results).value, Len(results)),
              periods |-> Len(results),
              date_range |-> [start |-> startDateStr, end |-> endDateStr] ] >>
    ELSE <<>>

\* the summary statistics; <<>> when there is no summary
Summary(level, results, startDateStr, endDateStr) ==
    IF level # "none" /\ Len(results) > 0
    THEN << [ total |-> Round2(SumOfValues(results)),
              average_per_period |-> Round2Div(SumOfValues(results), Len(results)),
              periods |-> Len(results),
              date_range |-> [start |-> startDateStr, end |-> endDateStr] ] >>
    ELSE <<>>

AggregationLevels == {"none", "daily", "weekly", "monthly", "yearly", "total"}

\* res.status(500).json({ success: false, error: error.message }); q (the
\* request) and rows (the number of rows in health_metrics when it was
\* answered) are history fields
ErrorResponse(q, message) ==
    [ status |-> 500, error |-> message, query |-> q, rows |-> Len(health_metrics) ]

\* (mutation of QueryFrame) every request is recorded in the import table
QueryFrameAudited ==
    /\ apple_health_auto_export' =
          Append(apple_health_auto_export,
                 [ metrics_count |-> 0, workouts_count |-> 0, payload_json |-> NoBody,
                   status |-> "query", error_message |-> "" ])
    /\ UNCHANGED <<health_metrics, health_sync_log, calls>>

\* the handler issues one SELECT and no other statement
QueryFrame ==
    UNCHANGED <<health_metrics, apple_health_auto_export, health_sync_log, calls>>

\* GET /api/apple-health/metrics/:type.  startDateStr and endDateStr are
\* start_date and end_date when both are given, else the dates the handler
\* derives from days and the clock.  limit is parseInt(limit), a positive
\* number.  The handler awaits one statement, allQuery, which may be rejected;
\* an inherited property given as the kind matches no row.
GetMetrics(type, aggregate, startDateStr, endDateStr, limit) ==
    LET q == [ type |-> type, aggregate |-> aggregate, start |-> startDateStr,
               end |-> endDateStr, limit |-> limit ]
    IN /\ IF internalTypeOf(type) = ""
          THEN /\ response' = ErrorResponse(q, "Unknown metric type")
               /\ UNCHANGED faults
          ELSE LET internalType == internalTypeOf(type)
                   level == aggregationLevel(aggregate, internalType)
                   ids == Matching(internalType, startDateStr, endDateStr)
               IN IF level \notin AggregationLevels
                  THEN /\ response' = ErrorResponse(q, "Invalid aggregation level")
                       /\ UNCHANGED faults
                  ELSE \/ /\ \E results \in Results(level, internalType, ids, limit) :
                               response' =
                                 [ status |-> 200, error |-> "",
                                   metric_type |-> type,
                                   aggregation |-> level,
                                   records_found |-> IF level = "none"
                                                     THEN <<Len(results)>> ELSE <<>>,
                                   data |-> results,
                                   summary |-> Summary(level, results,
                                                       startDateStr, endDateStr),
                                   query |-> q, rows |-> Len(health_metrics) ]
                          /\ UNCHANGED faults
                       \/ /\ Reject
                          /\ response' = ErrorResponse(q, "rejected")
       /\ QueryFrame

-----------------------------------------------------------------------------
(* Ingestion and queries together, on a store that already holds the rows  *)
(* of the complete export                                                  *)

\* the day of T1 and the day after it
Day1 == <<2025, 10, 11>>
Day2 == <<2025, 10, 12>>

T1b == <<2025, 10, 11, 815>>     \* one minute after T1
T2 == <<2025, 10, 13, 900>>      \* a Monday: another day and week, same month
T3 == <<2024, 12, 30, 800>>      \* a Monday, and
T4 == <<2025, 1, 1, 800>>        \* the Wednesday after it, in the next year

\* rows that were written through saveHealthMetric before the service started
\* (the database file outlives the process: CREATE TABLE IF NOT EXISTS);
\* 'health_export_complete' is the source the device filter names
StoredBefore ==
    << MetricRow([ type |-> "step_count", source |-> "health_export_complete",
                   date |-> T1, value |-> 3000000, unit |-> "count",
                   additional |-> "Apple Watch" ]),
       MetricRow([ type |-> "step_count", source |-> "health_export_complete",
                   date |-> T1, value |-> 2900000, unit |-> "count",
                   additional |-> "iPhone" ]),
       MetricRow([ type |-> "step_count", source |-> "health_auto_export",
                   date |-> T2, value |-> 1000000, unit |-> "count",
                   additional |-> "iPhone" ]),
       MetricRow([ type |-> "heart_rate", source |-> "health_export_complete",
                   date |-> T2, value |-> 64000, unit |-> "count/min",
                   additional |-> "iPhone" ]),
       MetricRow([ type |-> "weight_body_mass", source |-> "health_export_complete",
                   date |-> T3, value |-> 80000, unit |-> "kg",
                   additional |-> "iPhone" ]),
       MetricRow([ type |-> "weight_body_mass", source |-> "health_export_complete",
                   date |-> T4, value |-> 81000, unit |-> "kg",
                   additional |-> "iPhone" ]) >>

DataPoint(date, qty, avg) ==
    [date |-> date, qty |-> qty, Avg |-> avg, totalSleep |-> 0, source |-> ""]

\* the batches of this specification: two active_energy samples one minute
\* apart, 100 kJ and 50 kcal; two heart_rate samples of two days; a
\* basal_energy_burned sample in kJ with a workout
QueryBodies ==
    { [ shape |-> "ok",
        metrics |-> << [ name |-> "active_energy", units |-> "kJ",
                         data |-> <<DataPoint(T1, 100000, 0)>> ],
                       [ name |-> "active_energy", units |-> "kcal",
                         data |-> <<DataPoint(T1b, 50000, 0)>> ] >>,
        workouts |-> <<>> ],
      [ shape |-> "ok",
        metrics |-> << [ name |-> "heart_rate", units |-> "count/min",
                         data |-> <<DataPoint(T1, 0, 60000),
                                    DataPoint(T2, 0, 81000)>> ] >>,
        workouts |-> <<>> ],
      [ shape |-> "ok",
        metrics |-> << [ name |-> "basal_energy_burned", units |-> "kJ",
                         data |-> <<DataPoint(T2, 8368, 0)>> ] >>,
        workouts |-> << [ name |-> "Running", start |-> T1,
                          duration |-> 1800000, source |-> "" ] >> ] }

\* the requests: :type, aggregate ("" when absent), the date range, limit
\* (100 is the default of the route).  The types of QueryTypes are asked at
\* every granularity over the wide range; the small limit and the narrow
\* range are asked of them at the granularities they matter for; every name of
\* metricMap is asked without a granularity; steps and heart-rate are asked
\* for a single day, body-weight by week over the turn of the year.
QueryTypes == {"steps", "heart-rate", "active-energy", "basal-energy", "constructor"}
QueryAggregates == AggregationLevels \cup {"", "hourly"}
WideRange == <<Day1, <<2025, 10, 14>>>>
NarrowRange == <<Day1, Day2>>
SingleDay == <<Day1, Day1>>
TurnOfYear == << <<2024, 12, 29>>, <<2025, 1, 5>> >>
DefaultLimit == 100

Queries ==
    { q \in [ type : QueryTypes \cup DOMAIN metricMap, aggregate : QueryAggregates,
              range : {WideRange, NarrowRange, SingleDay, TurnOfYear}, limit : {1, DefaultLimit} ] :
        \/ q.type \in QueryTypes /\ q.range = WideRange /\ q.limit = DefaultLimit
        \/ /\ q.type \in QueryTypes \cap DOMAIN metricMap
           /\ q.range = WideRange /\ q.limit = 1
           /\ q.aggregate \in {"none", "daily"}
        \/ /\ q.type \in QueryTypes \cap DOMAIN metricMap
           /\ q.range = NarrowRange /\ q.limit = DefaultLimit
           /\ q.aggregate \in {"", "daily", "total"}
        \/ q.aggregate = "" /\ q.range = WideRange /\ q.limit = DefaultLimit
        \/ /\ q.type \in {"steps", "heart-rate"}
           /\ q.range = SingleDay /\ q.limit = DefaultLimit
           /\ q.aggregate = ""
        \/ /\ q.type = "body-weight"
           /\ q.range = TurnOfYear /\ q.limit = DefaultLimit
           /\ q.aggregate = "weekly" }

\* an ingest request that was answered 400
RejectedCall == [IdleCall EXCEPT !.pc = "done", !.status = 400,
                                 !.body.shape = "nodata"]

\* the service has answered all requests but the last, none of which stored
\* anything
QueryInit ==
    /\ health_metrics = StoredBefore
    /\ apple_health_auto_export = <<>>
    /\ health_sync_log = <<>>
    /\ calls = [c \in Calls |-> IF c < MaxCalls THEN RejectedCall ELSE IdleCall]
    /\ faults = 0
    /\ response = NoResponse

QueryNext ==
    \/ \E c \in Calls, body \in QueryBodies : Receive(c, body)
    \/ \E c \in Calls : ImportInsert(c)
    \/ \E c \in Calls : SaveMetric(c)
    \/ \E c \in Calls : SaveWorkout(c)
    \/ \E c \in Calls : LogSync(c)
    \/ \E c \in Calls : ErrImport(c)
    \/ \E c \in Calls : ErrLogSync(c)
    \/ \E q \in Queries :
          GetMetrics(q.type, q.aggregate, q.range[1], q.range[2], q.limit)

QuerySpec == QueryInit /\ [][QueryNext]_vars

-----------------------------------------------------------------------------
(* Properties of ingestion *)

\* two rows carry the same (metric kind, source, timestamp) tuple
SameTuple(r1, r2) ==
    /\ r1.metric_date # NoDate
    /\ Key(r1) = Key(r2)

Returned(c) == calls[c].pc = "done" /\ calls[c].status = 200

\* the ids of the rows call c inserted
InsertedIds(c) == { calls[c].rowIds[j] : j \in DOMAIN calls[c].rowIds } \ {0}


\* C1: in every reachable state health_metrics holds at most one row per
\* (metric kind, source, timestamp) tuple.
C1_AtMostOneRowPerTuple ==
    \A k1, k2 \in DOMAIN health_metrics :
        SameTuple(health_metrics[k1], health_metrics[k2]) => k1 = k2

\* C2: a batch delivered again after its first delivery has returned adds
\* no row.
C2_IdempotentRedelivery ==
    \A c \in Calls \ {1} :
        ( /\ Returned(c) /\ Returned(c - 1)
          /\ calls[c].body = calls[c - 1].body
          /\ (c - 1) \notin calls[c].concurrentWith )
        => InsertedIds(c) = {}

\* C3: the counts an ingest call returns equal the number of rows it
\* inserted, and a call that delivers only tuples already in the store
\* returns 0 and 0.
C3_CountsAreRowsInserted ==
    \A c \in Calls :
        Returned(c) =>
            /\ calls[c].metricsStored + calls[c].workoutsStored
                   = Cardinality(InsertedIds(c))
            /\ calls[c].allSeen =>
                   calls[c].metricsStored = 0 /\ calls[c].workoutsStored = 0

\* C4: first write wins and nothing is counted twice: when the samples
\* submitted for one tuple differ in value, the daily step total of the day is
\* the sum, over the tuples of that day, of the first value submitted for the
\* tuple, never the sum of both values.
C4_FirstWriteWinsNoDoubleCount ==
    LET group == DailyGroup("step_count", Day1, Day2, Day1, "count")
        first == { k \in group :
                     \A k2 \in group :
                        SameTuple(health_metrics[k], health_metrics[k2]) => k <= k2 }
        differ == \A k1, k2 \in group :
                     (k1 # k2 /\ SameTuple(health_metrics[k1], health_metrics[k2]))
                     => health_metrics[k1].metric_value # health_metrics[k2].metric_value
    IN differ =>
         /\ group = first
         /\ DailyTotalValue("step_count", Day1, Day2, Day1, "count") = SumValue(first)

\* C5: two ingest calls that were in flight at the same time never both
\* insert a row for one tuple.
C5_ConcurrentCallsShareNoTuple ==
    \A c1, c2 \in Calls :
        c1 \in calls[c2].concurrentWith =>
            \A k1 \in InsertedIds(c1), k2 \in InsertedIds(c2) :
                ~SameTuple(health_metrics[k1], health_metrics[k2])

C7_ExactlyOneImportRow ==
    \A c \in Calls :
        (calls[c].pc = "done" /\ calls[c].body.shape = "ok") =>
            Len(calls[c].importIds) = 1

BadTimestamp(date) == date \in {NoDate, BadDate}

\* C9: a data point with a missing or malformed timestamp is rejected on its
\* own: the call that carried it returns, no row was stored for it, it is not
\* counted, and the other data points were saved.
C9_BadTimestampRejected ==
    \A c \in Calls :
        LET items == MetricItems(calls[c].body.metrics)
            good == { j \in DOMAIN items : ~BadTimestamp(items[j].date) }
        IN Returned(c) =>
              /\ \A j \in DOMAIN items :
                    BadTimestamp(items[j].date) <=> calls[c].rowIds[j] = 0
              /\ calls[c].metricsStored = Cardinality(good)

-----------------------------------------------------------------------------
(* Properties of the stored samples *)

\* the rows the ingest requests of this run have stored
Ingested == { k \in DOMAIN health_metrics : k > Len(StoredBefore) }

RECURSIVE SubmittedSamples(_)
SubmittedSamples(metrics) ==
    IF metrics = <<>> THEN <<>>
    ELSE LET entry == Head(metrics)
         IN [ j \in 1..Len(entry.data) |->
                [ value |-> CASE entry.name = "heart_rate" -> entry.data[j].Avg
                              [] entry.name = "sleep_analysis" -> entry.data[j].totalSleep
                              [] OTHER -> entry.data[j].qty,
                  unit |-> entry.units ] ]
            \o SubmittedSamples(Tail(metrics))

Submitted(body) ==
    SubmittedSamples(body.metrics)
    \o [ j \in 1..Len(body.workouts) |->
           [ value |-> body.workouts[j].duration, unit |-> "seconds" ] ]

\* C12: every row ingest has stored holds, as raw value and unit, the value
\* and the unit submitted for its data point, whatever the conversion wrote
\* to the normalized field.
C12_RawValueAndUnitVerbatim ==
    \A c \in Calls :
        \A j \in DOMAIN calls[c].rowIds :
            calls[c].rowIds[j] # 0 =>
                /\ health_metrics[calls[c].rowIds[j]].metric_value
                      = Submitted(calls[c].body)[j].value
                /\ health_metrics[calls[c].rowIds[j]].metric_unit
                      = Submitted(calls[c].body)[j].unit

\* C12 witness: a returned call stored a kJ sample whose normalized value
\* differs from the raw value it submitted.
C12_Witness ==
    \E c \in Calls :
        /\ Returned(c)
        /\ Len(calls[c].rowIds) = 2
        /\ LET row == health_metrics[calls[c].rowIds[1]]
           IN /\ row.metric_unit = "kJ"
              /\ row.metric_value = 100000
              /\ row.metric_value_converted # row.metric_value

\* C13: no step of an ingest or a metrics request changes or removes a
\* stored row: every row keeps its id and all its fields, and the table only
\* grows.
C13_SamplesImmutable ==
    [][ /\ Len(health_metrics') >= Len(health_metrics)
        /\ \A k \in DOMAIN health_metrics : health_metrics'[k] = health_metrics[k]
      ]_vars

\* C13 witness: the rows stored before are all in place after a later ingest
\* call has stored a sample of a kind and timestamp the store already held and
\* a metrics request has been answered from the grown table.
C13_Witness ==
    /\ Len(health_metrics) > Len(StoredBefore)
    /\ SubSeq(health_metrics, 1, Len(StoredBefore)) = StoredBefore
    /\ \E c \in Calls : Returned(c) /\ InsertedIds(c) # {}
    /\ \E k \in Ingested : /\ health_metrics[k].metric_type = "heart_rate"
                           /\ health_metrics[k].metric_date = T2
    /\ response.status = 200
    /\ response.rows > Len(StoredBefore)

-----------------------------------------------------------------------------
(* Properties of the metrics request *)

\* the request was answered with data
Answered == response.status = 200

\* the internal kind the answered request asked for
AskedKind == internalTypeOf(response.query.type)

\* the ids of the rows of the asked kind whose timestamp lay in the asked
\* range when the request was answered (the table only grows, so these are
\* the first response.rows rows)
InRange ==
    { k \in 1..response.rows :
        /\ health_metrics[k].metric_type = AskedKind
        /\ health_metrics[k].metric_date # NoDate
        /\ LexLeq(response.query.start, health_metrics[k].metric_date)
        /\ LexLeq(health_metrics[k].metric_date, response.query.end) }

\* the request may have lost rows or groups to its limit
MaybeCut ==
    response.aggregation # "total" /\ Len(response.data) >= response.query.limit

RECURSIVE SumOfSamples(_)
SumOfSamples(results) ==
    IF results = <<>> THEN 0
    ELSE Head(results).samples + SumOfSamples(Tail(results))

\* the number of samples an answer accounts for
CountedSamples ==
    IF response.aggregation = "none" THEN Len(response.data)
    ELSE SumOfSamples(response.data)

RECURSIVE SumRaw(_)
SumRaw(ids) ==
    IF ids = {} THEN 0
    ELSE LET k == CHOOSE x \in ids : TRUE
         IN health_metrics[k].metric_value + SumRaw(ids \ {k})

\* a source the step filter lets through
RealTimeOrWatch(row) ==
    \/ row.metric_source = "health_auto_export"
    \/ /\ row.metric_source = "health_export_complete"
       /\ row.additional_data = "Apple Watch"

\* the rows a request for the asked kind is to work on
FilterInput ==
    IF AskedKind = "step_count"
    THEN { k \in InRange : RealTimeOrWatch(health_metrics[k]) }
    ELSE InRange

\* C14: at every granularity a step-count answer counts only samples of the
\* real-time export or of the general export with watch metadata, and an
\* answer for any other kind counts the samples of every source: each group
\* (each record at granularity none) is made of such samples only, and an
\* answer that lost nothing to its limit accounts for all of them, its step
\* values adding up to their sum.
C14_DevicePriorityFilter ==
    Answered =>
        /\ \A i \in DOMAIN response.data :
              IF response.aggregation = "none"
              THEN \E k \in FilterInput :
                      /\ response.data[i].recorded_date = health_metrics[k].metric_date
                      /\ response.data[i].device = health_metrics[k].metric_source
                      /\ response.data[i].additional = health_metrics[k].additional_data
              ELSE LET same == { k \in FilterInput :
                                   Period(response.aggregation, health_metrics[k].metric_date)
                                      = response.data[i].period }
                   IN IF IsEnergyType(AskedKind)   \* reported as kcal, whatever was stored
                      THEN response.data[i].samples <= Cardinality(same)
                      ELSE response.data[i].samples =
                              Cardinality({ k \in same :
                                  health_metrics[k].metric_unit = response.data[i].unit })
        /\ CountedSamples <= Cardinality(FilterInput)
        /\ ~MaybeCut =>
              /\ CountedSamples = Cardinality(FilterInput)
              /\ (AskedKind = "step_count" /\ response.aggregation # "none")
                    => SumOfValues(response.data) = SumRaw(FilterInput)

\* C14 witness: a weekly step-count answer over a range that holds a step
\* sample of the general export without watch metadata: two of the three
\* samples are counted, the one of the watch and the one of the real-time
\* export.
C14_Witness ==
    /\ Answered
    /\ response.query.type = "steps"
    /\ response.aggregation = "weekly"
    /\ Cardinality(InRange) = 3
    /\ \E k \in InRange : /\ health_metrics[k].metric_source = "health_export_complete"
                          /\ health_metrics[k].additional_data = "iPhone"
    /\ CountedSamples = 2
    /\ SumOfValues(response.data) = 4000000

\* the absolute difference
Dist(a, b) == IF a >= b THEN a - b ELSE b - a

\* the answer is a daily answer for a cumulative kind, complete (not cut by
\* its limit), given from the table as it is now
DailyCumulativeAnswer ==
    /\ Answered
    /\ response.aggregation = "daily"
    /\ AskedKind \in cumulativeMetrics
    /\ ~MaybeCut
    /\ response.rows = Len(health_metrics)

\* C15: when a daily answer for a cumulative kind carries a summary, the
\* total aggregation over the same range returns a single group, and the value
\* of that group equals the summary total of the daily answer up to one
\* hundredth per period.
C15_DailySummaryEqualsTotal ==
    (DailyCumulativeAnswer /\ response.summary # <<>>) =>
        \A t \in Results("total", AskedKind,
                         Matching(AskedKind, response.query.start, response.query.end),
                         response.query.limit) :
            /\ Len(t) = 1
            /\ Dist(t[1].value, response.summary[1].total)
                  <= 10 * response.summary[1].periods

\* C16: a complete daily answer holds exactly one group for each calendar day
\* that has matching samples, whatever the units the samples were stored
\* with; the group counts all the samples of the day and, for an energy kind,
\* its value is the sum of their normalized values.
C16_OneDailyGroupPerDay ==
    (Answered /\ response.aggregation = "daily" /\ ~MaybeCut) =>
        /\ \A i, j \in DOMAIN response.data :
              response.data[i].period = response.data[j].period => i = j
        /\ { response.data[i].period : i \in DOMAIN response.data }
              = { Substr10(health_metrics[k].metric_date) : k \in FilterInput }
        /\ \A i \in DOMAIN response.data :
              LET day == { k \in FilterInput :
                             Substr10(health_metrics[k].metric_date)
                                = response.data[i].period }
              IN /\ response.data[i].samples = Cardinality(day)
                 /\ IsEnergyType(AskedKind) =>
                       response.data[i].value = Round2(SumConverted(day))

RECURSIVE SumNormalized(_)
SumNormalized(ids) ==
    IF ids = {} THEN 0
    ELSE LET k == CHOOSE x \in ids : TRUE
         IN health_metrics[k].metric_value_converted + SumNormalized(ids \ {k})

\* the sets of samples group i of an aggregated answer may stand for: the
\* samples of its period that share one stored unit (the stored unit itself
\* when the answer reports it), as many as the group counts
SamplesOfGroup(i) ==
    { G \in SUBSET FilterInput :
        /\ G # {}
        /\ Cardinality(G) = response.data[i].samples
        /\ \A k \in G :
              /\ Period(response.aggregation, health_metrics[k].metric_date)
                    = response.data[i].period
              /\ \A k2 \in G : health_metrics[k2].metric_unit = health_metrics[k].metric_unit
              /\ ~IsEnergyType(AskedKind)
                    => health_metrics[k].metric_unit = response.data[i].unit }

\* C17: the value of every group of an aggregated answer for an energy kind
\* is computed from the normalized values of the samples of the group and is
\* reported in kcal; for every other kind it is computed from their raw values
\* (summed for a cumulative kind, averaged otherwise) and reported with the
\* stored unit.
C17_UnitResolution ==
    (Answered /\ response.aggregation # "none") =>
        \A i \in DOMAIN response.data :
            \E G \in SamplesOfGroup(i) :
                IF IsEnergyType(AskedKind)
                THEN /\ response.data[i].unit = "kcal"
                     /\ response.data[i].value = Round2(SumNormalized(G))
                ELSE response.data[i].value =
                        IF AskedKind \in cumulativeMetrics THEN Round2(SumRaw(G))
                        ELSE Round2Div(SumRaw(G), Cardinality(G))

\* C17 witness: a monthly active-energy answer over a stored 100 kJ sample:
\* its group reports 23.9 kcal.
C17_Witness ==
    /\ Answered
    /\ response.query.type = "active-energy"
    /\ response.aggregation = "monthly"
    /\ \E k \in FilterInput : /\ health_metrics[k].metric_unit = "kJ"
                              /\ health_metrics[k].metric_value = 100000
    /\ \E i \in DOMAIN response.data :
          /\ response.data[i].value = 23900
          /\ response.data[i].unit = "kcal"
          /\ response.data[i].samples = 1

\* what one sample contributes to its group: its normalized value for an
\* energy kind, its raw value otherwise
Contribution(k) ==
    IF IsEnergyType(health_metrics[k].metric_type)
    THEN health_metrics[k].metric_value_converted
    ELSE health_metrics[k].metric_value

RECURSIVE SumContributions(_)
SumContributions(ids) ==
    IF ids = {} THEN 0
    ELSE LET k == CHOOSE x \in ids : TRUE
         IN Contribution(k) + SumContributions(ids \ {k})

\* C18: at each of the granularities daily, weekly, monthly, yearly and total
\* the value of a group is the sum of its samples when the kind is cumulative
\* and their average (rounded to two decimals) when it is not.
C18_SumOrAveragePerGroup ==
    \A level \in {"daily", "weekly", "monthly", "yearly", "total"} :
        (Answered /\ response.aggregation = level) =>
            \A i \in DOMAIN response.data :
                \E G \in SamplesOfGroup(i) :
                    response.data[i].value =
                        IF AskedKind \in cumulativeMetrics
                        THEN Round2(SumContributions(G))
                        ELSE Round2Div(SumContributions(G), Cardinality(G))

\* C18 witness: a weekly heart-rate answer with a group of the two samples 64
\* and 81, whose value is their average 72.5.
C18_Witness ==
    /\ Answered
    /\ response.query.type = "heart-rate"
    /\ response.aggregation = "weekly"
    /\ \E i \in DOMAIN response.data :
          /\ response.data[i].samples = 2
          /\ response.data[i].value = 72500
          /\ SamplesOfGroup(i) # {}
          /\ \A G \in SamplesOfGroup(i) : SumRaw(G) = 145000

\* the smallest and the largest raw value of a set of samples
Smallest(G) ==
    CHOOSE v \in { health_metrics[k].metric_value : k \in G } :
        \A k \in G : v <= health_metrics[k].metric_value

Largest(G) ==
    CHOOSE v \in { health_metrics[k].metric_value : k \in G } :
        \A k \in G : v >= health_metrics[k].metric_value

\* group i of an aggregated answer carries the min and the max of its samples
CarriesMinMax(i) ==
    /\ response.data[i].hasStats
    /\ response.data[i].min # NaN
    /\ response.data[i].max # NaN
    /\ \E G \in SamplesOfGroup(i) :
          /\ response.data[i].min[1] = Round2(Smallest(G))
          /\ response.data[i].max[1] = Round2(Largest(G))

\* C19: for a kind that is not cumulative, every group of an answer at daily,
\* weekly, monthly, yearly or total granularity carries, next to its sample
\* count, a min and a max equal to the smallest and the largest value of its
\* samples.
C19_MinMaxAtEveryGranularity ==
    ( /\ Answered
      /\ response.aggregation \in {"daily", "weekly", "monthly", "yearly", "total"}
      /\ AskedKind \notin cumulativeMetrics )
    => \A i \in DOMAIN response.data : CarriesMinMax(i)

RecordRows ==
    { f \in [DOMAIN response.data -> FilterInput] :
        /\ \A i, j \in DOMAIN f : f[i] = f[j] => i = j
        /\ \A i \in DOMAIN f :
              /\ response.data[i].recorded_date = health_metrics[f[i]].metric_date
              /\ response.data[i].device = health_metrics[f[i]].metric_source }

Min(a, b) == IF a <= b THEN a ELSE b

\* C21: a request at granularity none with limit L against M matching
\* samples is answered with exactly min(L, M) records; they are in
\* newest-first timestamp order, and they are the newest ones: no matching
\* sample that was left out is newer than a returned one.
C21_NewestWithinLimit ==
    (Answered /\ response.aggregation = "none") =>
        /\ Len(response.data) = Min(response.query.limit, Cardinality(FilterInput))
        /\ \A i, j \in DOMAIN response.data :
              i < j => LexLeq(response.data[j].recorded_date,
                              response.data[i].recorded_date)
        /\ \E f \in RecordRows :
              \A k \in FilterInput \ { f[i] : i \in DOMAIN f } :
                 \A i \in DOMAIN f :
                    LexLeq(health_metrics[k].metric_date, response.data[i].recorded_date)

\* C21 witness: a heart-rate request with limit 1 against three samples in
\* range, answered with one record of the newest timestamp.
C21_Witness ==
    /\ Answered
    /\ response.query.type = "heart-rate"
    /\ response.aggregation = "none"
    /\ response.query.limit = 1
    /\ Cardinality(FilterInput) = 3
    /\ Len(response.data) = 1
    /\ response.data[1].recorded_date = T2

\* the request named a kind of the table and no unknown granularity
WellFormedRequest ==
    /\ response.status # 0
    /\ response.query.type \in DOMAIN metricMap
    /\ response.query.aggregate \in
          {"", "none", "daily", "weekly", "monthly", "yearly", "total"}

\* C22: a request whose range holds no matching sample is not an error: a
\* well-formed request fails only when the store rejects its statement, and
\* an answer over no matching sample has an empty group list and no summary.
\* The summary is present exactly when the granularity is not none and at
\* least one group is returned.
C22_EmptyRangeIsNoError ==
    /\ (WellFormedRequest /\ response.status = 500) => response.error = "rejected"
    /\ Answered =>
          /\ FilterInput = {} => (response.data = <<>> /\ response.summary = <<>>)
          /\ response.summary # <<>> <=>
                (response.aggregation # "none" /\ response.data # <<>>)

\* C22 witness: with samples of other kinds stored, an active-energy request
\* at granularity total finds nothing and is answered with no group and no
\* summary.
C22_Witness ==
    /\ Answered
    /\ response.query.type = "active-energy"
    /\ response.aggregation = "total"
    /\ response.rows >= Len(StoredBefore)
    /\ FilterInput = {}
    /\ response.data = <<>>
    /\ response.summary = <<>>

\* the sum of the values of the first n returned groups
RECURSIVE SumOfGroupValues(_)
SumOfGroupValues(n) ==
    IF n = 0 THEN 0 ELSE response.data[n].value + SumOfGroupValues(n - 1)

\* C23: whenever a summary is returned, its total is the sum of the values
\* of the returned groups, its periods is the number of returned groups, and
\* its average_per_period is the total divided by periods, each rounded to 2
\* decimals.
C23_SummaryBlock ==
    (Answered /\ response.summary # <<>>) =>
        LET summary == response.summary[1]
            periods == Len(response.data)
        IN /\ periods > 0
           /\ summary.total = Round2Div(SumOfGroupValues(periods), 1)
           /\ summary.periods = periods
           /\ summary.average_per_period = Round2Div(summary.total, summary.periods)

\* C23 witness: a heart-rate request at daily granularity answered with two
\* groups of 72.5 and 60 count/min: total 132.5 over 2 periods, 66.25 each.
C23_Witness ==
    /\ Answered
    /\ response.query.type = "heart-rate"
    /\ response.aggregation = "daily"
    /\ Len(response.data) = 2
    /\ response.data[1].value = 72500
    /\ response.data[2].value = 60000
    /\ response.summary # <<>>
    /\ response.summary[1].total = 132500
    /\ response.summary[1].periods = 2
    /\ response.summary[1].average_per_period = 66250

\* the names of the fixed wire-name table
WireNames ==
    { "steps", "heart-rate", "active-energy", "walking-distance", "body-weight",
      "exercise-minutes", "flights-climbed", "resting-heart-rate", "hrv", "sleep" }

\* C24: a request for a kind name that is not in the fixed wire-name table
\* fails with the unsupported-metric-kind error, whatever granularity it
\* names (the store is not read: the failure is never that of the store).
C24_UnknownKindFails ==
    (response.status # 0 /\ response.query.type \notin WireNames) =>
        /\ response.status = 500
        /\ response.error = "Unknown metric type"

\* a name that is in no table and names no inherited property fails so at
\* every granularity
C24_UnknownNameFails ==
    (response.status # 0 /\ internalTypeOf(response.query.type) = "") =>
        /\ response.status = 500
        /\ response.error = "Unknown metric type"

\* a request for 'constructor' answered as an empty list of raw samples
C24_InheritedNameAnswered ==
    /\ Answered
    /\ response.query.type = "constructor"
    /\ response.aggregation = "none"
    /\ response.data = <<>>

\* C25: a request for a supported kind with a granularity token outside
\* none, daily, weekly, monthly, yearly and total fails with the
\* invalid-granularity error and returns no groups.
C25_InvalidGranularityFails ==
    ( /\ response.status # 0
      /\ response.query.type \in WireNames
      /\ response.query.aggregate \notin
            {"", "none", "daily", "weekly", "monthly", "yearly", "total"} )
    => /\ response.status = 500
       /\ response.error = "Invalid aggregation level"
       /\ "data" \notin DOMAIN response

\* C25 witness: a steps request with the token 'hourly', made when the store
\* held step samples of the range, failed with the invalid-granularity error.
C25_Witness ==
    /\ response.status = 500
    /\ response.query.type = "steps"
    /\ response.query.aggregate = "hourly"
    /\ response.error = "Invalid aggregation level"
    /\ FilterInput # {}

\* C26: the metrics request is a pure read: for every kind, range,
\* granularity and limit, and whether it is answered with data or fails, the
\* step that answers it leaves the sample table and the import table as they
\* were.
C26_QueryIsPureRead ==
    [][ response' # response =>
          /\ health_metrics' = health_metrics
          /\ apple_health_auto_export' = apple_health_auto_export ]_vars

\* C26 witness: a request failed on the store after a batch had been
\* ingested; the sample table and the import table still hold what the batch
\* wrote.
C26_Witness ==
    /\ response.status = 500
    /\ response.error = "rejected"
    /\ response.rows = Len(health_metrics)
    /\ Len(health_metrics) > Len(StoredBefore)
    /\ Len(apple_health_auto_export) = 1
    /\ apple_health_auto_export[1].status = "success"

\* the import record call c wrote at its start (status 'success')
ImportRecord(c) == apple_health_auto_export[calls[c].importId]

\* the number of data points over all metric entries of a batch
RECURSIVE SamplesContained(_)
SamplesContained(entries) ==
    IF entries = <<>> THEN 0
    ELSE Len(entries[1].data) + SamplesContained(SubSeq(entries, 2, Len(entries)))

\* C27 as claimed: the import record an ingest call writes records the
\* number of samples contained in the batch (the data points over all metric
\* entries) and the number of workouts contained.
C27_RecordsSampleCount ==
    \A c \in Calls :
        calls[c].importId # 0 =>
            /\ ImportRecord(c).metrics_count = SamplesContained(calls[c].body.metrics)
            /\ ImportRecord(c).workouts_count = Len(calls[c].body.workouts)

\* C27 as amended: the import record an ingest call writes at its start
\* records the number of metric entries of the batch, whatever number of
\* data points they hold, and the number of workouts; the record a failed
\* call adds (status 'error') records 0 for both.
C27_RecordsEntryCount ==
    \A c \in Calls :
        /\ calls[c].importId # 0 =>
              /\ ImportRecord(c).status = "success"
              /\ ImportRecord(c).payload_json = calls[c].body
              /\ ImportRecord(c).metrics_count = Len(calls[c].body.metrics)
              /\ ImportRecord(c).workouts_count = Len(calls[c].body.workouts)
        /\ \A j \in DOMAIN calls[c].importIds :
              apple_health_auto_export[calls[c].importIds[j]].status = "error" =>
                 /\ apple_health_auto_export[calls[c].importIds[j]].metrics_count = 0
                 /\ apple_health_auto_export[calls[c].importIds[j]].workouts_count = 0

\* C27 witness: a call that returned after storing the two data points of
\* one metric entry; its import record counts 1 metric.
C27_Witness ==
    \E c \in Calls :
        /\ Returned(c)
        /\ calls[c].importId # 0
        /\ Len(calls[c].body.metrics) = 1
        /\ SamplesContained(calls[c].body.metrics) = 2
        /\ calls[c].metricsStored = 2
        /\ ImportRecord(c).metrics_count = 1

\* the number of the day of a timestamp, counted from Monday 1 January of
\* the year 1 (day 0)
DayNumber(date) ==
    LET y == date[1] - 1
    IN 365 * y + (y \div 4) - (y \div 100) + (y \div 400) + DayOfYear(date)

\* two timestamps lie in the same ISO-8601 week: the same Monday-to-Sunday
\* span, whatever the calendar year of each
SameIsoWeek(d1, d2) == DayNumber(d1) \div 7 = DayNumber(d2) \div 7

\* group i of the answer holds the sample of row k (the groups of an energy
\* kind are all reported in kcal)
InReturnedGroup(k, i) ==
    /\ AskedKind \in {"active_energy", "basal_energy_burned"}
          \/ response.data[i].unit = health_metrics[k].metric_unit
    /\ LexLeq(response.data[i].first_sample, health_metrics[k].metric_date)
    /\ LexLeq(health_metrics[k].metric_date, response.data[i].last_sample)

\* C28: weekly aggregation groups samples by ISO-8601 week: two samples of
\* an answer that lost no group to its limit fall in the same weekly group
\* exactly when they lie in the same ISO week (Monday to Sunday), including
\* the days around a year boundary.
C28_WeeklyGroupsAreIsoWeeks ==
    (Answered /\ response.aggregation = "weekly" /\ ~MaybeCut) =>
        \A k1, k2 \in FilterInput :
            health_metrics[k1].metric_unit = health_metrics[k2].metric_unit =>
                ( (\E i \in DOMAIN response.data :
                      InReturnedGroup(k1, i) /\ InReturnedGroup(k2, i))
                  <=> SameIsoWeek(health_metrics[k1].metric_date,
                                  health_metrics[k2].metric_date) )

\* away from a year boundary the weekly groups are the ISO weeks
C28_WeeklyGroupsWithinAYear ==
    ( /\ Answered /\ response.aggregation = "weekly" /\ ~MaybeCut
      /\ response.query.start[1] = response.query.end[1] ) =>
        \A k1, k2 \in FilterInput :
            health_metrics[k1].metric_unit = health_metrics[k2].metric_unit =>
                ( (\E i \in DOMAIN response.data :
                      InReturnedGroup(k1, i) /\ InReturnedGroup(k2, i))
                  <=> SameIsoWeek(health_metrics[k1].metric_date,
                                  health_metrics[k2].metric_date) )

\* the samples of the asked kind, of the sources a request works on, whose
\* timestamp falls on a day from the start date to the end date of the
\* request, both days included
OnDaysOfRange ==
    { k \in 1..response.rows :
        /\ health_metrics[k].metric_type = AskedKind
        /\ health_metrics[k].metric_date # NoDate
        /\ LexLeq(response.query.start, Substr10(health_metrics[k].metric_date))
        /\ LexLeq(Substr10(health_metrics[k].metric_date), response.query.end)
        /\ AskedKind = "step_count" => RealTimeOrWatch(health_metrics[k]) }

\* C29: range bounds are inclusive by day: an answer that lost nothing to
\* its limit accounts for every stored sample of the kind whose timestamp
\* falls on a day from the start date to the end date, the end day itself
\* included; with equal start and end dates these are the samples of that
\* single day.
C29_RangeInclusiveByDay ==
    (Answered /\ ~MaybeCut) => CountedSamples = Cardinality(OnDaysOfRange)

\* every sample an answer accounts for falls on a day of the range, and the
\* samples of the days before the end day are all accounted for
C29_RangeExcludesEndDay ==
    (Answered /\ ~MaybeCut) =>
        CountedSamples = Cardinality({ k \in OnDaysOfRange :
                            Substr10(health_metrics[k].metric_date) # response.query.end })

\* the import records call c wrote
ImportRecords(c) ==
    { apple_health_auto_export[calls[c].importIds[j]] : j \in DOMAIN calls[c].importIds }

\* C30: an import record with status 'success' exists for an ingest call
\* only if that call returned successfully: a call that failed after it
\* started (the store rejected the save of one of its samples) is answered
\* with an error and has no 'success' record in the import table.
C30_SuccessRecordOnlyOnSuccess ==
    \A c \in Calls :
        (calls[c].pc = "done" /\ calls[c].failedAt # 0) =>
            /\ calls[c].status = 500
            /\ \A r \in ImportRecords(c) : r.status # "success"

\* a call whose save was rejected is answered 500 (no partial success is
\* reported), and a call that returned successfully has one record, of
\* status 'success'
C30_FailureIsReported ==
    \A c \in Calls :
        /\ (calls[c].pc = "done" /\ calls[c].failedAt # 0) => calls[c].status = 500
        /\ (Returned(c) /\ calls[c].body.shape = "ok") =>
              /\ Cardinality(ImportRecords(c)) = 1
              /\ \A r \in ImportRecords(c) : r.status = "success"

====
